---------------------------- MODULE Spec2Model ----------------------------
(***************************************************************************)
(* A model of src/utils/helpers.py, the helper layer of the metabolomics   *)
(* imputation project: get_sample_info, validate_data,                     *)
(* calculate_missing_percentage, create_directories, save_results,         *)
(* generate_report_summary and setup_logging.                              *)
(*                                                                         *)
(* The helpers are independent functions, so each gets a specification of  *)
(* its own (SpecSampleInfo, SpecValidate, ...) over the variables it       *)
(* reads and writes; the variables of the other helpers stay at their idle *)
(* values.  Text (group names, file names, method names) is modelled as a  *)
(* sequence of one-character strings so that formatting, suffix tests and  *)
(* upper-casing are computed, not assumed.                                 *)
(***************************************************************************)
EXTENDS Integers, Sequences, FiniteSets, TLC

VARIABLES
    pc,            \* position of the call under study
    samples,       \* config['dataset']['samples'], an ordered mapping
    colors,        \* config['visualization']['colors']
    sample_info,   \* rows returned by get_sample_info
    data,          \* the input DataFrame: columns, row count, null mask
    errors,        \* validate_data: the error list
    is_valid,      \* validate_data: the returned flag
    missing_stats, \* rows returned by calculate_missing_percentage
    paths,         \* config['paths'], an ordered mapping name -> path
    fs,            \* the filesystem: path -> "absent" | "dir" | "file"
    raised,        \* whether the last call raised
    calls,         \* number of calls made so far
    artifact,      \* save_results: the type of the `data` argument
    filename,      \* save_results: the `filename` argument
    subdirectory,  \* save_results: the `subdirectory` argument
    written,       \* save_results: the files written by the call
    logged,        \* save_results: the path in the 'Results saved to' record
    config,        \* the project and dataset entries of the configuration
    results,       \* generate_report_summary: the results mapping
    summary,       \* generate_report_summary: the returned text, as lines
    root_handlers, \* logging: handlers installed on the root logger
    root_level,    \* logging: level of the root logger
    now,           \* the clock, in seconds
    log_file,      \* setup_logging: the file made by the latest call
    emitted,       \* logging: the latest record emitted, if any
    delivered      \* logging: the handlers the latest record was written by

varsInfo == <<samples, colors, sample_info>>
varsData == <<data, errors, is_valid, missing_stats>>
varsFs == <<paths, fs, raised, calls>>
varsSave == <<artifact, filename, subdirectory, written, logged>>
varsReport == <<config, results, summary>>
varsLog == <<root_handlers, root_level, now, log_file, emitted, delivered>>

vars == <<pc, varsInfo, varsData, varsFs, varsSave, varsReport, varsLog>>

----------------------------------------------------------------------------
(* Bounds of the model.                                                    *)

MaxGroups == 2
MaxCount == 2

----------------------------------------------------------------------------
(* Text helpers.                                                           *)

Digits == <<"0", "1", "2", "3", "4", "5", "6", "7", "8", "9">>

RECURSIVE Dec(_)
\* str(n) for a natural number n, as in an f-string's {n}.
Dec(n) == IF n < 10 THEN <<Digits[n + 1]>>
          ELSE Dec(n \div 10) \o <<Digits[(n % 10) + 1]>>

EndsWith(s, suffix) ==
    /\ Len(s) >= Len(suffix)
    /\ SubSeq(s, Len(s) - Len(suffix) + 1, Len(s)) = suffix

Range(s) == {s[i] : i \in DOMAIN s}

RECURSIVE SumSeq(_)
SumSeq(s) == IF s = <<>> THEN 0 ELSE Head(s) + SumSeq(Tail(s))

\* Sequences without repetition over S, of length at most n: the key orders
\* a mapping can have.
RECURSIVE OrderedKeys(_, _)
OrderedKeys(S, n) ==
    IF n = 0 THEN {<<>>}
    ELSE {<<>>} \cup UNION {{<<x>> \o t : t \in OrderedKeys(S \ {x}, n - 1)} : x \in S}

----------------------------------------------------------------------------
(* Idle values: the variables a specification does not use.                *)

NoData == [columns |-> <<>>, nrows |-> 0, isnull |-> <<>>]

IdleInfo == sample_info = <<>>
IdleData == data = NoData
IdleValidate == errors = <<>> /\ is_valid = FALSE
IdleMissing == missing_stats = <<>>
IdleFs == paths = <<>> /\ fs = <<>> /\ raised = FALSE /\ calls = 0
IdleSave == /\ artifact = "none" /\ filename = <<>> /\ subdirectory = "none"
            /\ written = <<>> /\ logged = <<>>
IdleReport == config = <<>> /\ results = <<>> /\ summary = <<>>
\* no log file yet, and no record yet
NoFile == 0 - 1
NoRecord == [level |-> 0, since |-> NoFile]

IdleLog == /\ root_handlers = {} /\ root_level = 0 /\ now = 0
           /\ log_file = NoFile /\ emitted = NoRecord /\ delivered = {}

----------------------------------------------------------------------------
(* get_sample_info                                                         *)

GroupNames == {<<"A">>, <<"B">>, <<"A", "_", "1">>, <<"1">>}

DefaultColor == "#999999"

\* The configurations: dataset.samples as a sequence of (group, count) pairs
\* in declared order, the groups distinct as the keys of a mapping are.
SampleConfigs ==
    UNION {{[k \in 1..Len(ks) |-> [group |-> ks[k], count |-> cnt[k]]] :
                cnt \in [1..Len(ks) -> 0..MaxCount]} :
           ks \in OrderedKeys(GroupNames, MaxGroups)}

ColorConfigs == {<<>>, [g \in {<<"A">>} |-> "#ff0000"]}

ColorOf(cols, group) ==
    IF cols # <<>> /\ group \in DOMAIN cols THEN cols[group] ELSE DefaultColor

\* a 0-based suffix: f"{group}_{i}"
SampleIdZeroBased(group, i) == group \o <<"_">> \o Dec(i)

\* f"{group}_{i+1}"
SampleId(group, i) == group \o <<"_">> \o Dec(i + 1)

\* the suffix taken from the group's count instead of the loop index:
\* f"{group}_{count}"
RowsOfGroupCountSuffix(group, count, cols) ==
    [j \in 1..count |-> [sample_id |-> group \o <<"_">> \o Dec(count),
                         group |-> group,
                         color |-> ColorOf(cols, group)]]

\* the inner loop: for i in range(count)
RowsOfGroup(group, count, cols) ==
    [j \in 1..count |-> [sample_id |-> SampleId(group, j - 1),
                         group |-> group,
                         color |-> ColorOf(cols, group)]]

RECURSIVE BuildSampleInfo(_, _)
\* the outer loop: for group, count in samples.items()
BuildSampleInfo(smp, cols) ==
    IF smp = <<>> THEN <<>>
    ELSE RowsOfGroup(Head(smp).group, Head(smp).count, cols)
             \o BuildSampleInfo(Tail(smp), cols)

GetSampleInfo ==
    /\ pc = "start"
    /\ sample_info' = BuildSampleInfo(samples, colors)
    /\ pc' = "done"
    /\ UNCHANGED <<samples, colors, varsData, varsFs, varsSave, varsReport, varsLog>>

InitSampleInfo ==
    /\ pc = "start"
    /\ samples \in SampleConfigs
    /\ colors \in ColorConfigs
    /\ IdleInfo /\ IdleData /\ IdleValidate /\ IdleMissing /\ IdleFs
    /\ IdleSave /\ IdleReport /\ IdleLog

NextSampleInfo == GetSampleInfo

SpecSampleInfo == InitSampleInfo /\ [][NextSampleInfo]_vars

Counts == [k \in 1..Len(samples) |-> samples[k].count]

\* number of rows that precede group k's rows
Offset(k) == SumSeq(SubSeq(Counts, 1, k - 1))

\* C1: get_sample_info returns exactly N = sum of the counts rows, and group
\* k's rows, taken in declared order, are contiguous and carry the ids
\* {group}_1 .. {group}_count in that order.
C1_SampleInfoRows ==
    pc = "done" =>
        /\ Len(sample_info) = SumSeq(Counts)
        /\ \A k \in 1..Len(samples) : \A j \in 1..samples[k].count :
              /\ sample_info[Offset(k) + j].group = samples[k].group
              /\ sample_info[Offset(k) + j].sample_id =
                     samples[k].group \o <<"_">> \o Dec(j)

C1_Witness ==
    /\ pc = "done"
    /\ Len(samples) = 2
    /\ samples[1].count = 2 /\ samples[2].count = 2
    /\ Len(sample_info) = 4

\* C10: no two rows of the returned table have the same sample_id, within a
\* group or across groups.
C10_SampleIdsUnique ==
    pc = "done" =>
        \A a, b \in 1..Len(sample_info) :
            sample_info[a].sample_id = sample_info[b].sample_id => a = b

C10_Witness ==
    /\ pc = "done"
    /\ Len(samples) = 2
    /\ samples[1].group = <<"A">> /\ samples[1].count = 2
    /\ samples[2].group = <<"A", "_", "1">> /\ samples[2].count = 1

----------------------------------------------------------------------------
(* The input DataFrame, and validate_data                                  *)

MaxRows == 2
MaxCols == 2

ColumnNames == <<"f1", "f2", "f3", "f4">>

\* DataFrames of up to maxr rows and maxc columns; isnull[r][c] is
\* data.isnull() at row r, column c.
DataFrames(maxr, maxc) ==
    UNION {{[columns |-> SubSeq(ColumnNames, 1, nc), nrows |-> nr, isnull |-> m] :
                m \in [1..nr -> [1..nc -> BOOLEAN]]} :
           nr \in 0..maxr, nc \in 0..maxc}

NCols(d) == Len(d.columns)

\* the groups of the configurations that validate_data is run against
ValidateGroups == {<<"A">>, <<"B">>}

ValidateConfigs ==
    UNION {{[k \in 1..Len(ks) |-> [group |-> ks[k], count |-> cnt[k]]] :
                cnt \in [1..Len(ks) -> 0..MaxCount]} :
           ks \in OrderedKeys(ValidateGroups, MaxGroups)}

\* sum(config['dataset']['samples'].values())
ExpectedSamples(smp) == SumSeq([k \in 1..Len(smp) |-> smp[k].count])

\* data.isnull().all(): pandas' all() of a column is True for a column of
\* no cells
ColumnAllNull(d, c) == \A r \in 1..d.nrows : d.isnull[r][c]

\* data.isnull().all(axis=1): True for a row of no cells
RowAllNull(d, r) == \A c \in 1..NCols(d) : d.isnull[r][c]

\* data.columns[data.isnull().all()]
EmptyFeatures(d) == {c \in 1..NCols(d) : ColumnAllNull(d, c)}

\* data.index[data.isnull().all(axis=1)]
EmptySamples(d) == {r \in 1..d.nrows : RowAllNull(d, r)}

\* f"Expected {expected_samples} samples, got {len(data)}"
SamplesMessage(expected, got) ==
    [check |-> "samples", expected |-> expected, got |-> got]

\* f"Found {len(empty_features)} completely empty features"
FeaturesMessage(n) == [check |-> "empty_features", n |-> n]

\* f"Found {len(empty_samples)} completely empty samples"
EmptySamplesMessage(n) == [check |-> "empty_samples", n |-> n]

\* a comparison that only reports too few rows
CheckSampleCountTooFewOnly(errs, d, smp) ==
    IF d.nrows < ExpectedSamples(smp)
    THEN Append(errs, SamplesMessage(ExpectedSamples(smp), d.nrows))
    ELSE errs

\* if len(data) != expected_samples: errors.append(...)
CheckSampleCount(errs, d, smp) ==
    IF d.nrows # ExpectedSamples(smp)
    THEN Append(errs, SamplesMessage(ExpectedSamples(smp), d.nrows))
    ELSE errs

\* a check that is skipped once an earlier one has failed
CheckEmptyFeaturesShortCircuit(errs, d) ==
    IF errs = <<>> /\ Cardinality(EmptyFeatures(d)) > 0
    THEN Append(errs, FeaturesMessage(Cardinality(EmptyFeatures(d))))
    ELSE errs

\* if len(empty_features) > 0: errors.append(...)
CheckEmptyFeatures(errs, d) ==
    IF Cardinality(EmptyFeatures(d)) > 0
    THEN Append(errs, FeaturesMessage(Cardinality(EmptyFeatures(d))))
    ELSE errs

\* if len(empty_samples) > 0: errors.append(...)
CheckEmptySamples(errs, d) ==
    IF Cardinality(EmptySamples(d)) > 0
    THEN Append(errs, EmptySamplesMessage(Cardinality(EmptySamples(d))))
    ELSE errs

UnchangedByValidate ==
    UNCHANGED <<varsInfo, data, missing_stats, varsFs, varsSave, varsReport, varsLog>>

\* errors = []; the check of the number of samples
ValidateSampleCount ==
    /\ pc = "start"
    /\ errors' = CheckSampleCount(<<>>, data, samples)
    /\ pc' = "empty_features"
    /\ UNCHANGED is_valid
    /\ UnchangedByValidate

\* the check for completely empty features
ValidateEmptyFeatures ==
    /\ pc = "empty_features"
    /\ errors' = CheckEmptyFeatures(errors, data)
    /\ pc' = "empty_samples"
    /\ UNCHANGED is_valid
    /\ UnchangedByValidate

\* the check for completely empty samples
ValidateEmptySamples ==
    /\ pc = "empty_samples"
    /\ errors' = CheckEmptySamples(errors, data)
    /\ pc' = "return"
    /\ UNCHANGED is_valid
    /\ UnchangedByValidate

\* is_valid = len(errors) == 0; return is_valid, errors
ValidateReturn ==
    /\ pc = "return"
    /\ is_valid' = (Len(errors) = 0)
    /\ pc' = "done"
    /\ UNCHANGED errors
    /\ UnchangedByValidate

InitValidate ==
    /\ pc = "start"
    /\ samples \in ValidateConfigs
    /\ colors = <<>>
    /\ data \in DataFrames(MaxRows, MaxCols)
    /\ IdleInfo /\ IdleValidate /\ IdleMissing /\ IdleFs
    /\ IdleSave /\ IdleReport /\ IdleLog

NextValidate ==
    \/ ValidateSampleCount
    \/ ValidateEmptyFeatures
    \/ ValidateEmptySamples
    \/ ValidateReturn

SpecValidate == InitValidate /\ [][NextValidate]_vars

RowCountMessages == SelectSeq(errors, LAMBDA e : e.check = "samples")

RowCountMismatchReported ==
    data.nrows # ExpectedSamples(samples) =>
        /\ is_valid = FALSE
        /\ Len(RowCountMessages) = 1

\* a column that has cells, all of them missing
HasMissingOnlyColumn ==
    \E c \in 1..NCols(data) : data.nrows > 0 /\ ColumnAllNull(data, c)

\* a row that has cells, all of them missing
HasMissingOnlyRow ==
    \E r \in 1..data.nrows : NCols(data) > 0 /\ RowAllNull(data, r)

\* C2 as claimed: a row-count mismatch gives is_valid = False with exactly
\* one row-count message; a matching row count with no row and no column made
\* only of missing values gives is_valid = True and no message, inputs of zero
\* rows or zero columns included.
C2_AsClaimed ==
    pc = "done" =>
        /\ RowCountMismatchReported
        /\ (/\ data.nrows = ExpectedSamples(samples)
            /\ ~HasMissingOnlyColumn
            /\ ~HasMissingOnlyRow) => (is_valid = TRUE /\ errors = <<>>)

\* C2, amended: as claimed for inputs with at least one row and one column and
\* for the input with neither; an input of zero rows with columns, or of zero
\* columns with rows, is reported invalid although its row count matches,
\* because every column (row) of no cells counts as completely empty.
C2_ValidateContract ==
    pc = "done" =>
        /\ RowCountMismatchReported
        /\ (/\ data.nrows = ExpectedSamples(samples)
            /\ ~HasMissingOnlyColumn
            /\ ~HasMissingOnlyRow
            /\ (data.nrows = 0 <=> NCols(data) = 0))
               => (is_valid = TRUE /\ errors = <<>>)
        /\ (data.nrows = 0 /\ NCols(data) > 0) =>
               (is_valid = FALSE /\ FeaturesMessage(NCols(data)) \in Range(errors))
        /\ (NCols(data) = 0 /\ data.nrows > 0) =>
               (is_valid = FALSE /\ EmptySamplesMessage(data.nrows) \in Range(errors))

C2_Witness ==
    /\ pc = "done"
    /\ data.nrows = 2 /\ NCols(data) = 2
    /\ ExpectedSamples(samples) = 2
    /\ is_valid = TRUE

\* the three checks, in the code's order, with the message each appends
\* when it fails
ChecksInOrder ==
    <<[failed |-> data.nrows # ExpectedSamples(samples),
       msg |-> SamplesMessage(ExpectedSamples(samples), data.nrows)],
      [failed |-> \E c \in 1..NCols(data) : \A r \in 1..data.nrows : data.isnull[r][c],
       msg |-> FeaturesMessage(Cardinality(EmptyFeatures(data)))],
      [failed |-> \E r \in 1..data.nrows : \A c \in 1..NCols(data) : data.isnull[r][c],
       msg |-> EmptySamplesMessage(Cardinality(EmptySamples(data)))]>>

FailedChecks == SelectSeq(ChecksInOrder, LAMBDA c : c.failed)

\* C8: validate_data runs the three checks whatever the earlier ones found,
\* appends one message per failed check and none per passed check, returns
\* the messages in check order, and is_valid is true iff the list is empty.
C8_AllChecksCollected ==
    pc = "done" =>
        /\ errors = [i \in 1..Len(FailedChecks) |-> FailedChecks[i].msg]
        /\ is_valid = (errors = <<>>)

C8_Witness ==
    /\ pc = "done"
    /\ Len(errors) = 3
    /\ is_valid = FALSE

----------------------------------------------------------------------------
(* calculate_missing_percentage                                            *)

\* data.isnull().sum() of column c
NMissing(d, c) == Cardinality({r \in 1..d.nrows : d.isnull[r][c]})

\* data.isnull().sum() / len(data) * 100: the exact quotient, and NaN for
\* the 0 / 0 of a DataFrame of no rows
PctMissing(d, c) ==
    IF d.nrows = 0 THEN [nan |-> TRUE, num |-> 0, den |-> 1]
    ELSE [nan |-> FALSE, num |-> 100 * NMissing(d, c), den |-> d.nrows]

\* the DataFrame built from feature, n_missing and pct_missing, one row per
\* column, in column order
BuildMissingStats(d) ==
    [c \in 1..NCols(d) |-> [feature |-> d.columns[c],
                            n_missing |-> NMissing(d, c),
                            pct_missing |-> PctMissing(d, c)]]

\* p < q for two pct_missing values that are numbers
PctLess(p, q) == p.num * q.den < q.num * p.den

Orderings(n) == {f \in [1..n -> 1..n] : \A i, j \in 1..n : f[i] = f[j] => i = j}

\* sort_values('pct_missing', ascending=False) with the default
\* kind='quicksort', which is not a stable sort: the outcome is some
\* arrangement of the rows with pct_missing non-increasing, rows of equal
\* pct_missing in an order the sort does not determine.  NaN rows are not
\* given to the sort; they go last in their original order
\* (na_position='last').
SortValuesDescending(rows) ==
    {[i \in 1..Len(rows) |-> rows[f[i]]] : f \in
        {g \in Orderings(Len(rows)) :
            \A i, j \in 1..Len(rows) : i < j =>
                /\ ~(rows[g[i]].pct_missing.nan /\ ~rows[g[j]].pct_missing.nan)
                /\ (rows[g[i]].pct_missing.nan /\ rows[g[j]].pct_missing.nan)
                       => g[i] < g[j]
                /\ (~rows[g[i]].pct_missing.nan /\ ~rows[g[j]].pct_missing.nan)
                       => ~PctLess(rows[g[i]].pct_missing, rows[g[j]].pct_missing)}}

CalculateMissingPercentage ==
    /\ pc = "start"
    /\ missing_stats' \in SortValuesDescending(BuildMissingStats(data))
    /\ pc' = "done"
    /\ UNCHANGED <<varsInfo, data, errors, is_valid, varsFs, varsSave, varsReport,
                   varsLog>>

InitMissing ==
    /\ pc = "start"
    /\ samples = <<>> /\ colors = <<>>
    /\ data \in DataFrames(MaxRows, MaxCols + 1)
    /\ IdleInfo /\ IdleValidate /\ IdleMissing /\ IdleFs
    /\ IdleSave /\ IdleReport /\ IdleLog

NextMissing == CalculateMissingPercentage

SpecMissing == InitMissing /\ [][NextMissing]_vars

\* position of a feature among the input's columns
ColumnIndex(feature) == CHOOSE c \in 1..NCols(data) : data.columns[c] = feature

NoMissingValues == \A r \in 1..data.nrows : \A c \in 1..NCols(data) : ~data.isnull[r][c]

\* pct_missing as the number 100 * n_missing / row_count equal to zero
IsZeroPct(p) == ~p.nan /\ p.num = 0

\* C3: calculate_missing_percentage returns one row per input column, ordered
\* by pct_missing descending, two columns of equal pct_missing in their
\* original relative order; for an input without missing values every
\* pct_missing is 0 and the rows are in the original column order.
C3_StableDescending ==
    pc = "done" =>
        /\ Len(missing_stats) = NCols(data)
        /\ {missing_stats[i].feature : i \in 1..Len(missing_stats)} = Range(data.columns)
        /\ \A i, j \in 1..Len(missing_stats) : i < j =>
              /\ ~PctLess(missing_stats[i].pct_missing, missing_stats[j].pct_missing)
              /\ missing_stats[i].pct_missing = missing_stats[j].pct_missing
                    => ColumnIndex(missing_stats[i].feature)
                           < ColumnIndex(missing_stats[j].feature)
        /\ NoMissingValues =>
              /\ \A i \in 1..Len(missing_stats) : IsZeroPct(missing_stats[i].pct_missing)
              /\ [i \in 1..Len(missing_stats) |-> missing_stats[i].feature] = data.columns

----------------------------------------------------------------------------
(* The filesystem, and create_directories                                  *)

MaxPaths == 2
MaxCalls == 2

\* the directories a configuration may name; a path is the sequence of its
\* components
DirPaths == {<<"out">>, <<"out", "results">>, <<"logs">>}

PathNames == {"results", "logs", "figures"}

Parent(p) == SubSeq(p, 1, Len(p) - 1)

\* filesystems over DirPaths: an entry exists only inside a directory
FileSystems ==
    {f \in [DirPaths -> {"absent", "dir", "file"}] :
        \A p \in DirPaths :
            (Len(p) > 1 /\ f[p] # "absent") => f[Parent(p)] = "dir"}

\* config['paths'] as a sequence of (name, value) pairs in declared order
PathConfigs ==
    UNION {{[k \in 1..Len(ks) |-> [name |-> ks[k], value |-> vs[k]]] :
                vs \in [1..Len(ks) -> DirPaths]} :
           ks \in OrderedKeys(PathNames, MaxPaths)}

RECURSIVE MkdirNoExistOk(_, _)
\* Path(p).mkdir(parents=True), without exist_ok: raises when p exists
MkdirNoExistOk(f, p) ==
    IF f[p] # "absent" THEN [fs |-> f, ok |-> FALSE]
    ELSE IF Len(p) = 1 \/ f[Parent(p)] = "dir"
         THEN [fs |-> [f EXCEPT ![p] = "dir"], ok |-> TRUE]
    ELSE LET up == MkdirNoExistOk(f, Parent(p))
         IN  IF up.ok THEN [fs |-> [up.fs EXCEPT ![p] = "dir"], ok |-> TRUE]
             ELSE [fs |-> f, ok |-> FALSE]

RECURSIVE Mkdir(_, _)
\* Path(p).mkdir(parents=True, exist_ok=True): nothing to do for a
\* directory; raises for a file at p or at an ancestor of p; otherwise makes
\* the missing ancestors, then p
Mkdir(f, p) ==
    IF f[p] = "dir" THEN [fs |-> f, ok |-> TRUE]
    ELSE IF f[p] = "file" THEN [fs |-> f, ok |-> FALSE]
    ELSE IF Len(p) = 1 THEN [fs |-> [f EXCEPT ![p] = "dir"], ok |-> TRUE]
    ELSE LET up == Mkdir(f, Parent(p))
         IN  IF up.ok THEN [fs |-> [up.fs EXCEPT ![p] = "dir"], ok |-> TRUE]
             ELSE [fs |-> up.fs, ok |-> FALSE]

RECURSIVE MakePaths(_, _)
\* for path_name, path_value in config['paths'].items(): mkdir; the loop
\* ends at the first mkdir that raises
MakePaths(f, entries) ==
    IF entries = <<>> THEN [fs |-> f, ok |-> TRUE]
    ELSE LET made == Mkdir(f, Head(entries).value)
         IN  IF made.ok THEN MakePaths(made.fs, Tail(entries)) ELSE made

CreateDirectories ==
    /\ calls < MaxCalls
    /\ LET made == MakePaths(fs, paths)
       IN  /\ fs' = made.fs
           /\ raised' = ~made.ok
    /\ calls' = calls + 1
    /\ UNCHANGED <<pc, varsInfo, varsData, paths, varsSave, varsReport, varsLog>>

InitDirectories ==
    /\ pc = "start"
    /\ samples = <<>> /\ colors = <<>>
    /\ paths \in PathConfigs
    /\ fs \in FileSystems
    /\ raised = FALSE /\ calls = 0
    /\ IdleInfo /\ IdleData /\ IdleValidate /\ IdleMissing
    /\ IdleSave /\ IdleReport /\ IdleLog

NextDirectories == CreateDirectories

SpecDirectories == InitDirectories /\ [][NextDirectories]_vars

AllPathsAreDirectories == \A k \in 1..Len(paths) : fs[paths[k].value] = "dir"

\* C4: a call of create_directories that follows a successful call with the
\* same configuration raises nothing and leaves the set of directories as
\* the first call left it; after any successful call every path of
\* config['paths'] is a directory.
C4_CreateDirectoriesIdempotent ==
    [][(calls' = calls + 1) =>
          /\ ~raised' => AllPathsAreDirectories'
          /\ (calls >= 1 /\ ~raised) => (~raised' /\ fs' = fs)]_vars

C4_Witness ==
    /\ calls = 2
    /\ ~raised
    /\ \E k \in 1..Len(paths) : paths[k].value = <<"out", "results">>
    /\ \E k \in 1..Len(paths) : paths[k].value = <<"logs">>

----------------------------------------------------------------------------
(* save_results                                                            *)

Csv == <<".", "c", "s", "v">>
Xlsx == <<".", "x", "l", "s", "x">>
Npy == <<".", "n", "p", "y">>

\* the filenames save_results is called with
Filenames ==
    {<<"a">> \o Csv, <<"a">> \o Xlsx, <<"a">> \o Npy,
     <<"a", ".", "p", "k", "l">>, <<"a", ".", "C", "S", "V">>,
     <<"a">> \o Csv \o <<".", "b", "a", "k">>, <<"c", "s", "v">>, Csv}

\* the types of the `data` argument: the two the signature names, and
\* anything else
ArtifactTypes == {"DataFrame", "ndarray", "other"}

HasKey(entries, name) == \E k \in 1..Len(entries) : entries[k].name = name

\* config['paths'][subdirectory]
PathOf(entries, name) ==
    entries[CHOOSE k \in 1..Len(entries) : entries[k].name = name].value

Contains(s, part) ==
    \E k \in 0..(Len(s) - Len(part)) : SubSeq(s, k + 1, k + Len(part)) = part

\* the extension looked for anywhere in the filename
StoredFormatBySubstring(type, name) ==
    IF type = "DataFrame"
    THEN IF Contains(name, Csv) THEN "csv"
         ELSE IF Contains(name, Xlsx) THEN "excel"
         ELSE "pickle"
    ELSE IF type = "ndarray" THEN "npy"
    ELSE "none"

\* the isinstance / endswith branches: to_csv, to_excel, to_pickle, np.save,
\* or no write at all
StoredFormat(type, name) ==
    IF type = "DataFrame"
    THEN IF EndsWith(name, Csv) THEN "csv"
         ELSE IF EndsWith(name, Xlsx) THEN "excel"
         ELSE "pickle"
    ELSE IF type = "ndarray" THEN "npy"
    ELSE "none"

\* the file a writer creates when given output_path: to_csv, to_excel and
\* to_pickle write output_path itself; np.save appends '.npy' to a path that
\* does not end in it
FileWritten(type, dir, name) ==
    IF type = "ndarray" /\ ~EndsWith(name, Npy)
    THEN [dir |-> dir, name |-> name \o Npy]
    ELSE [dir |-> dir, name |-> name]

\* the writes of the call
Writes(type, dir, name) ==
    IF StoredFormat(type, name) = "none" THEN <<>>
    ELSE <<[path |-> FileWritten(type, dir, name),
            format |-> StoredFormat(type, name)]>>

\* save_results(data, filename, config, subdirectory).  A missing
\* config['paths'] key, a mkdir that fails and a write that fails (disk
\* full, permission denied) all propagate: nothing is logged then.
SaveResults ==
    /\ pc = "start"
    /\ pc' = "done"
    /\ \/ /\ ~HasKey(paths, subdirectory)
          /\ raised' = TRUE
          /\ UNCHANGED <<fs, written, logged>>
       \/ /\ HasKey(paths, subdirectory)
          /\ LET output_dir == PathOf(paths, subdirectory)
                 made == Mkdir(fs, output_dir)
             IN  /\ fs' = made.fs
                 /\ \/ /\ ~made.ok
                       /\ raised' = TRUE
                       /\ UNCHANGED <<written, logged>>
                    \/ /\ made.ok
                       /\ StoredFormat(artifact, filename) # "none"
                       /\ raised' = TRUE
                       /\ UNCHANGED <<written, logged>>
                    \/ /\ made.ok
                       /\ raised' = FALSE
                       /\ written' = Writes(artifact, output_dir, filename)
                       /\ logged' = <<[dir |-> output_dir, name |-> filename]>>
    /\ UNCHANGED <<varsInfo, varsData, paths, calls, artifact, filename,
                   subdirectory, varsReport, varsLog>>

InitSave ==
    /\ pc = "start"
    /\ samples = <<>> /\ colors = <<>>
    /\ paths \in PathConfigs
    /\ fs \in FileSystems
    /\ raised = FALSE /\ calls = 0
    /\ artifact \in ArtifactTypes
    /\ filename \in Filenames
    /\ subdirectory \in {"results", "figures"}
    /\ written = <<>> /\ logged = <<>>
    /\ IdleInfo /\ IdleData /\ IdleValidate /\ IdleMissing
    /\ IdleReport /\ IdleLog

NextSave == SaveResults

SpecSave == InitSave /\ [][NextSave]_vars

Returned == pc = "done" /\ ~raised

\* filename = <prefix> + suffix
HasSuffix(suffix) ==
    \E k \in 0..Len(filename) : filename = SubSeq(filename, 1, k) \o suffix

\* C5: the stored format depends on the artifact's type and the filename's
\* extension only: a DataFrame is written as CSV for a name ending in .csv,
\* as Excel for a name ending in .xlsx and as a pickle otherwise; an ndarray
\* is written in numpy's binary format whatever the name.
C5_FormatByTypeAndExtension ==
    (Returned /\ artifact \in {"DataFrame", "ndarray"}) =>
        /\ Len(written) = 1
        /\ artifact = "DataFrame" =>
              written[1].format =
                  (IF HasSuffix(Csv) THEN "csv"
                   ELSE IF HasSuffix(Xlsx) THEN "excel" ELSE "pickle")
        /\ artifact = "ndarray" => written[1].format = "npy"

C5_Witness ==
    /\ Returned
    /\ artifact = "DataFrame"
    /\ filename = <<"a">> \o Csv \o <<".", "b", "a", "k">>
    /\ Len(written) = 1 /\ written[1].format = "pickle"

\* C9: whenever save_results returns for a DataFrame or an ndarray, the
\* directory config['paths'][subdirectory] exists and exactly one file has
\* been written, at <that directory>/<filename>, which is the path of the
\* 'Results saved to' record.
C9_OneFileAtLoggedPath ==
    (Returned /\ artifact \in {"DataFrame", "ndarray"}) =>
        /\ fs[PathOf(paths, subdirectory)] = "dir"
        /\ Len(written) = 1
        /\ written[1].path = [dir |-> PathOf(paths, subdirectory), name |-> filename]
        /\ logged = <<written[1].path>>

----------------------------------------------------------------------------
(* generate_report_summary                                                 *)

MaxMethods == 2
MaxMetrics == 2

MethodNames == {<<"k", "n", "n">>, <<"E", "m", "2">>}

MetricNames == {"rmse", "mae", "r2"}

\* metric values, in units of 10^-5: 0.12345 and 0.12355
MetricValues == {12345, 12355}

\* the values v, a multiple of 10^-5 ending in 5, whose float lies above
\* v / 10^5 (0.12345 is stored as 0.123450000000000004...); the float of the
\* others lies below (0.12355 is stored as 0.123549999999999993...)
FloatAboveDecimal == {12345}

ReportConfigs == {[project |-> "Test", dataset |-> "D", total_files |-> 12]}

\* the mappings metric -> value of at most n entries, in iteration order
MetricMaps(n) ==
    UNION {{[k \in 1..Len(ks) |-> [name |-> ks[k], value |-> vs[k]]] :
                vs \in [1..Len(ks) -> MetricValues]} :
           ks \in OrderedKeys(MetricNames, n)}

\* the results mappings method -> metrics of at most n methods, in
\* iteration order
ResultMaps(n, nmetrics) ==
    UNION {{[k \in 1..Len(ks) |-> [method |-> ks[k], metrics |-> ms[k]]] :
                ms \in [1..Len(ks) -> MetricMaps(nmetrics)]} :
           ks \in OrderedKeys(MethodNames, n)}

UpperChar(c) ==
    CASE c = "k" -> "K"
      [] c = "n" -> "N"
      [] c = "m" -> "M"
      [] c = "e" -> "E"
      [] OTHER -> c

\* method.upper()
Upper(s) == [i \in 1..Len(s) |-> UpperChar(s[i])]

Abs(v) == IF v < 0 THEN 0 - v ELSE v

\* |v| rounded to 4 decimals as the float's digits round, in units of 10^-4
Round4(v) ==
    IF Abs(v) % 10 = 5
    THEN IF Abs(v) \in FloatAboveDecimal THEN Abs(v) \div 10 + 1 ELSE Abs(v) \div 10
    ELSE (Abs(v) + 5) \div 10

\* four digits, zero padded
Pad4(n) ==
    <<Digits[((n \div 1000) % 10) + 1], Digits[((n \div 100) % 10) + 1],
      Digits[((n \div 10) % 10) + 1], Digits[(n % 10) + 1]>>

\* f"{metric_value:.4f}"; the sign of a negative value is kept when the
\* digits round to zero
Format4(v) ==
    (IF v < 0 THEN <<"-">> ELSE <<>>)
        \o Dec(Round4(v) \div 10000) \o <<".">> \o Pad4(Round4(v) % 10000)

Blank == [kind |-> "blank"]
Border == [kind |-> "border"]

\* f"\n{method.upper()} Results:": an empty line, then the header
HeaderLines(method) == <<Blank, [kind |-> "header", method |-> Upper(method)]>>

\* f"  {metric_name}: {metric_value:.4f}"
MetricLine(metric) ==
    [kind |-> "metric", name |-> metric.name, value |-> Format4(metric.value)]

\* the inner loop dropping the last metric
MetricLinesButLast(metrics) ==
    [j \in 1..(Len(metrics) - 1) |-> MetricLine(metrics[j])]

\* for metric_name, metric_value in metrics.items()
MetricLines(metrics) == [j \in 1..Len(metrics) |-> MetricLine(metrics[j])]

RECURSIVE MethodLines(_)
\* for method, metrics in results.items()
MethodLines(res) ==
    IF res = <<>> THEN <<>>
    ELSE HeaderLines(Head(res).method) \o MetricLines(Head(res).metrics)
             \o MethodLines(Tail(res))

\* the lines appended before the loop; an element that starts with "\n"
\* gives an empty line first
PreambleLines(cfg, at) ==
    <<Border, [kind |-> "title"], Border,
      Blank, [kind |-> "project", name |-> cfg.project],
      [kind |-> "date", at |-> at],
      Blank, [kind |-> "dataset", name |-> cfg.dataset],
      [kind |-> "total_samples", n |-> cfg.total_files],
      Blank, [kind |-> "separator"]>>

\* "\n" + "=" * 80
ClosingLines == <<Blank, Border>>

GenerateReportSummary ==
    /\ pc = "start"
    /\ summary' = PreambleLines(config, now) \o MethodLines(results) \o ClosingLines
    /\ pc' = "done"
    /\ UNCHANGED <<varsInfo, varsData, varsFs, varsSave, config, results, varsLog>>

InitReport ==
    /\ pc = "start"
    /\ samples = <<>> /\ colors = <<>>
    /\ config \in ReportConfigs
    /\ results \in ResultMaps(MaxMethods, MaxMetrics)
    /\ summary = <<>>
    /\ IdleInfo /\ IdleData /\ IdleValidate /\ IdleMissing /\ IdleFs
    /\ IdleSave /\ IdleLog

NextReport == GenerateReportSummary

SpecReport == InitReport /\ [][NextReport]_vars

\* the lines of the text that are not empty
Content == SelectSeq(summary, LAMBDA l : l.kind # "blank")

NMetrics == [k \in 1..Len(results) |-> Len(results[k].metrics)]

\* position in Content of method k's header: 8 lines come before the first
HeaderAt(k) == 8 + SumSeq(SubSeq(NMetrics, 1, k - 1)) + (k - 1) + 1

\* C6: the report is the title block, project, timestamp, dataset and total
\* sample count, a separator, then per method in iteration order one
\* upper-cased header immediately followed by one line per metric in
\* iteration order with the value to 4 decimals, then the closing border;
\* nothing omitted, duplicated or reordered.  0.12345 prints as 0.1235.
C6_ReportLayout ==
    pc = "done" =>
        /\ Len(Content) = 8 + SumSeq(NMetrics) + Len(results) + 1
        /\ SubSeq(Content, 1, 3) = <<Border, [kind |-> "title"], Border>>
        /\ Content[4] = [kind |-> "project", name |-> config.project]
        /\ Content[5].kind = "date"
        /\ Content[6] = [kind |-> "dataset", name |-> config.dataset]
        /\ Content[7] = [kind |-> "total_samples", n |-> config.total_files]
        /\ Content[8] = [kind |-> "separator"]
        /\ Content[Len(Content)] = Border
        /\ \A k \in 1..Len(results) :
              /\ Content[HeaderAt(k)] =
                     [kind |-> "header", method |-> Upper(results[k].method)]
              /\ \E i \in 1..Len(summary) :
                     /\ summary[i] = Content[HeaderAt(k)]
                     /\ \A j \in 1..Len(results[k].metrics) :
                            summary[i + j] = Content[HeaderAt(k) + j]
              /\ \A j \in 1..Len(results[k].metrics) :
                     /\ Content[HeaderAt(k) + j].kind = "metric"
                     /\ Content[HeaderAt(k) + j].name = results[k].metrics[j].name
                     /\ Content[HeaderAt(k) + j].value = Format4(results[k].metrics[j].value)
                     /\ results[k].metrics[j].value = 12345 =>
                            Content[HeaderAt(k) + j].value = <<"0", ".", "1", "2", "3", "5">>
        /\ \A k \in 1..Len(results) :
              results[k].method = <<"k", "n", "n">> =>
                  Content[HeaderAt(k)].method = <<"K", "N", "N">>

C6_Witness ==
    /\ pc = "done"
    /\ Len(results) = 2
    /\ Len(results[1].metrics) = 2 /\ Len(results[2].metrics) = 2
    /\ results[1].method = <<"k", "n", "n">>
    /\ results[1].metrics[1] = [name |-> "rmse", value |-> 12345]
    /\ Len(summary) = 21

----------------------------------------------------------------------------
(* setup_logging, and the records logged afterwards                        *)

MaxClock == 2

\* logging.INFO, and logging.WARNING, the level of the root logger of a
\* process that has not configured logging
INFO == 20
WARNING == 30

\* DEBUG, INFO, WARNING, ERROR
Levels == {10, INFO, WARNING, 40}

\* logging.StreamHandler()
StreamHandler == [kind |-> "stream", name |-> NoFile]

\* logging.FileHandler(log_dir / f"metabolomics_imputation_{timestamp}.log"):
\* the file is named by the second the call is made in
FileHandler(timestamp) == [kind |-> "file", name |-> timestamp]

LogPaths == {<<[name |-> "logs", value |-> <<"logs">>]>>}

\* logging.basicConfig(level=..., handlers=...): does nothing when the root
\* logger already has handlers (force is not given)
BasicConfig(handlers, level, new_handlers, new_level) ==
    IF handlers = {} THEN [handlers |-> new_handlers, level |-> new_level]
    ELSE [handlers |-> handlers, level |-> level]

\* the handlers a record of the given level reaches through the root logger
HandlersReached(handlers, root, level) ==
    IF level >= root THEN handlers ELSE {}

\* setup_logging(config): mkdir of the log directory, the timestamped file
\* handler, basicConfig, then logger.info("Logging initialized")
SetupLogging ==
    /\ calls < MaxCalls
    /\ calls' = calls + 1
    /\ LET made == Mkdir(fs, PathOf(paths, "logs"))
           cfg == BasicConfig(root_handlers, root_level,
                              {FileHandler(now), StreamHandler}, INFO)
       IN  /\ fs' = made.fs
           /\ \/ /\ ~made.ok
                 /\ raised' = TRUE
                 /\ UNCHANGED <<root_handlers, root_level, log_file, emitted, delivered>>
              \/ /\ made.ok
                 /\ raised' = FALSE
                 /\ root_handlers' = cfg.handlers
                 /\ root_level' = cfg.level
                 /\ log_file' = now
                 /\ emitted' = [level |-> INFO, since |-> log_file]
                 /\ delivered' = HandlersReached(cfg.handlers, cfg.level, INFO)
    /\ UNCHANGED <<pc, varsInfo, varsData, paths, varsSave, varsReport, now>>

\* a module-level logging.info(...) as in save_results and set_random_seed,
\* or logging.debug / warning / error elsewhere in the process: with no
\* handler on the root logger it first calls basicConfig(), which installs a
\* StreamHandler and leaves the level alone
LogRecord(level) ==
    /\ LET cfg == BasicConfig(root_handlers, root_level, {StreamHandler}, root_level)
       IN  /\ root_handlers' = cfg.handlers
           /\ root_level' = cfg.level
           /\ emitted' = [level |-> level, since |-> log_file]
           /\ delivered' = HandlersReached(cfg.handlers, cfg.level, level)
    /\ UNCHANGED <<pc, varsInfo, varsData, varsFs, varsSave, varsReport, now, log_file>>

\* datetime.now() moves on
Tick ==
    /\ now < MaxClock
    /\ now' = now + 1
    /\ UNCHANGED <<pc, varsInfo, varsData, varsFs, varsSave, varsReport,
                   root_handlers, root_level, log_file, emitted, delivered>>

InitLogging ==
    /\ pc = "start"
    /\ samples = <<>> /\ colors = <<>>
    /\ paths \in LogPaths
    /\ fs \in FileSystems
    /\ raised = FALSE /\ calls = 0
    /\ root_handlers = {} /\ root_level = WARNING
    /\ now = 0
    /\ log_file = NoFile /\ emitted = NoRecord /\ delivered = {}
    /\ IdleInfo /\ IdleData /\ IdleValidate /\ IdleMissing
    /\ IdleSave /\ IdleReport

NextLogging ==
    \/ SetupLogging
    \/ \E level \in Levels : LogRecord(level)
    \/ Tick

SpecLogging == InitLogging /\ [][NextLogging]_vars

\* C7: once a call of setup_logging has returned, every record at INFO or
\* above is delivered to the file made by the latest call that returned and
\* to the console, also when that call followed an earlier one.
C7_RecordsReachLatestFile ==
    (/\ emitted # NoRecord
     /\ emitted.since # NoFile
     /\ emitted.level >= INFO)
        => {FileHandler(emitted.since), StreamHandler} \subseteq delivered

============================================================================
